---- MODULE Spec2Model ----
(***************************************************************************)
(* Model of dropid (src/src/index.ts): the process-wide configuration      *)
(* globalOptions, the operations configure, resetConfig, getConfig and     *)
(* dropid, and the validation / merge / assembly steps of dropid.          *)
(*                                                                         *)
(* JavaScript values are records [t, s, n]: t is the runtime type tag,     *)
(* s the characters of a string (or the elements of an array of one-       *)
(* character strings), n the value of a number.  Strings are sequences of  *)
(* one-character strings.  An options object is a function from the set of *)
(* keys it owns to values, so that "key present" and "key absent" are      *)
(* distinct and object spread is a per-key override.                       *)
(***************************************************************************)
EXTENDS Integers, Sequences, FiniteSets, TLC

VARIABLES globalOptions, call, opts, result, returned, configured,
          generator, held, heldLive, calls

vars == <<globalOptions, call, opts, result, returned, configured,
          generator, held, heldLive, calls>>

\* the state beside the process-wide options and the last call: the
\* generator a caller got from createPrefixedId, the object a caller kept
\* from getConfig, and the dropid calls in progress
callerVars == <<generator, held, heldLive, calls>>

----------------------------------------------------------------------------
(* JavaScript values *)

Str(s) == [t |-> "string", s |-> s, n |-> 0]
Num(n) == [t |-> "number", s |-> <<>>, n |-> n]
Arr(s) == [t |-> "array", s |-> s, n |-> 0]
Undefined == [t |-> "undefined", s |-> <<>>, n |-> 0]
Null == [t |-> "null", s |-> <<>>, n |-> 0]

\* typeof x
TypeOf(x) ==
    CASE x.t = "string" -> "string"
      [] x.t = "number" -> "number"
      [] x.t = "undefined" -> "undefined"
      [] OTHER -> "object"

\* ToBoolean(x), as used by !x and by x ? a : b
Truthy(x) ==
    CASE x.t = "string" -> x.s # <<>>
      [] x.t = "number" -> x.n # 0
      [] x.t = "array" -> TRUE
      [] OTHER -> FALSE

\* x < k for a numeric literal k: ToNumber(undefined) is NaN and every
\* comparison with NaN is false; ToNumber(null) is 0.
LessThan(x, k) ==
    CASE x.t = "number" -> x.n < k
      [] x.t = "null" -> 0 < k
      [] OTHER -> FALSE

\* x.length < k: strings and arrays have a length, other values give
\* undefined, and undefined < k is false.
LengthLessThan(x, k) ==
    IF x.t \in {"string", "array"} THEN Len(x.s) < k ELSE FALSE

----------------------------------------------------------------------------
(* Strings *)

Digits == <<"0", "1", "2", "3", "4", "5", "6", "7", "8", "9">>
Lower == <<"a", "b", "c", "d", "e", "f", "g", "h", "i", "j", "k", "l", "m",
           "n", "o", "p", "q", "r", "s", "t", "u", "v", "w", "x", "y", "z">>
Upper == <<"A", "B", "C", "D", "E", "F", "G", "H", "I", "J", "K", "L", "M",
           "N", "O", "P", "Q", "R", "S", "T", "U", "V", "W", "X", "Y", "Z">>
WhiteSpace == {" ", "\t"}

Chars(s) == {s[i] : i \in 1..Len(s)}

toLowerCaseChar(c) ==
    IF \E i \in 1..Len(Upper) : Upper[i] = c
    THEN Lower[CHOOSE i \in 1..Len(Upper) : Upper[i] = c]
    ELSE c

\* String.prototype.toLowerCase
toLowerCase(s) == [i \in 1..Len(s) |-> toLowerCaseChar(s[i])]

RECURSIVE trimStart(_)
trimStart(s) ==
    IF s # <<>> /\ Head(s) \in WhiteSpace THEN trimStart(Tail(s)) ELSE s

RECURSIVE trimEnd(_)
trimEnd(s) ==
    IF s # <<>> /\ s[Len(s)] \in WhiteSpace
    THEN trimEnd(SubSeq(s, 1, Len(s) - 1))
    ELSE s

\* String.prototype.trim
trim(s) == trimEnd(trimStart(s))

\* Array.prototype.join on an array of strings
RECURSIVE join(_, _)
join(parts, sep) ==
    IF parts = <<>> THEN <<>>
    ELSE IF Len(parts) = 1 THEN parts[1]
    ELSE parts[1] \o sep \o join(Tail(parts), sep)

----------------------------------------------------------------------------
(* Options objects *)

Fields == {"length", "alphabet", "separator"}

\* { ...a, ...b }: every own key of b overrides the same key of a
Spread(a, b) ==
    [k \in (DOMAIN a) \cup (DOMAIN b) |-> IF k \in DOMAIN b THEN b[k] ELSE a[k]]

EmptyObject == [k \in {} |-> Undefined]

defaultOptions ==
    [length |-> Num(12), alphabet |-> Str(Digits \o Lower), separator |-> Str(<<"_">>)]


----------------------------------------------------------------------------
(* The random suffix.  customAlphabet comes from the nanoid package, which  *)
(* is not part of this repository: it is modelled by its contract, a        *)
(* string of `size` symbols each taken from `alphabet`.  The entropy of one *)
(* call is the value `seed`; symbol i is alphabet[(seed + (seed+1)(i-1))    *)
(* mod |alphabet|].                                                         *)

customAlphabet(alphabet, size, seed) ==
    [i \in 1..size.n |->
        alphabet.s[((seed + (seed + 1) * (i - 1)) % Len(alphabet.s)) + 1]]

----------------------------------------------------------------------------
(* dropid: lines 104-144 *)

Thrown(kind, message, o) ==
    [kind |-> kind, message |-> message, value |-> <<>>, opts |-> o]
Returned(id, o) == [kind |-> "id", message |-> "", value |-> id, opts |-> o]

ModelNameMessage == "modelName must be a non-empty string"
LengthMessage == "length must be at least 1"
AlphabetMessage == "alphabet must contain at least 2 characters"
SeparatorMessage == "separator must be a string"

\* the model-name check without its typeof test
modelNameRejected_truthyOnly(modelName) == ~Truthy(modelName)

\* lines 109-112: the model-name check
modelNameRejected(modelName) ==
    ~Truthy(modelName) \/ TypeOf(modelName) # "string"

\* call options replacing the process-wide options wholesale
mergeOptions_wholesale(global, options) ==
    IF DOMAIN options = {} THEN global
    ELSE Spread(Spread(EmptyObject, defaultOptions), options)

\* a merge written with ||: a falsy call value falls through
mergeOptions_falsyFallsThrough(global, options) ==
    [k \in (DOMAIN global) \cup (DOMAIN options) |->
        IF k \in DOMAIN options /\ Truthy(options[k]) THEN options[k] ELSE global[k]]

\* lines 114-118: call options over process-wide options
mergeOptions(global, options) == Spread(global, options)

\* lines 120-123
lengthRejected(o) == LessThan(o.length, 1)

\* lines 125-127
alphabetRejected(o) == ~Truthy(o.alphabet) \/ LengthLessThan(o.alphabet, 2)

\* a separator check written as a falsy test
separatorRejected_falsy(o) == ~Truthy(o.separator)

\* lines 129-131
separatorRejected(o) == TypeOf(o.separator) # "string"

\* normalization that forgets to lower-case
normalize_noLowerCase(modelName) == trim(modelName.s)

\* normalization that forgets to trim
normalize_noTrim(modelName) == toLowerCase(modelName.s)

\* line 138
normalize(modelName) == trim(toLowerCase(modelName.s))

\* lines 133-143: suffix, parts and join
assemble(modelName, prefix, o, seed) ==
    LET id == customAlphabet(o.alphabet, o.length, seed)
        normalizedModelName == normalize(modelName)
        parts == IF Truthy(prefix)
                 THEN <<prefix.s, normalizedModelName, id>>
                 ELSE <<normalizedModelName, id>>
    IN join(parts, o.separator.s)

\* The outcome of dropid(modelName, prefix, options) when the process-wide
\* options are `global`: the error thrown or the identifier returned,
\* together with the merged options (EmptyObject when the call threw
\* before merging).
dropidOutcome(global, modelName, prefix, options, seed) ==
    IF modelNameRejected(modelName)
    THEN Thrown("TypeError", ModelNameMessage, EmptyObject)
    ELSE LET o == mergeOptions(global, options) IN
         IF lengthRejected(o) THEN Thrown("RangeError", LengthMessage, o)
         ELSE IF alphabetRejected(o) THEN Thrown("TypeError", AlphabetMessage, o)
         ELSE IF separatorRejected(o) THEN Thrown("TypeError", SeparatorMessage, o)
         ELSE Returned(assemble(modelName, prefix, o, seed), o)

----------------------------------------------------------------------------------------------------------------------------------------
(* Inputs *)

MaxLength == 2
MaxSeed == 1

Seeds == 0..MaxSeed

\* modelName arguments: absent, wrongly typed, empty, whitespace only,
\* plain, and one that needs both trimming and lower-casing
ModelNames ==
    { Undefined, Null, Num(123), Str(<<>>), Str(<<" ", " ">>),
      Str(<<"u">>), Str(<<" ", "U", "\t">>) }

\* prefix arguments: omitted, empty, non-empty
Prefixes == { Undefined, Str(<<>>), Str(<<"p">>) }

LengthValues == { Num(n) : n \in -1..MaxLength }

\* alphabet values: missing, empty, one symbol, two symbols, and an array of
\* two one-character strings (a value that is not a string)
AlphabetValues ==
    { Undefined, Str(<<>>), Str(<<"a">>), Str(<<"a", "b">>), Arr(<<"a", "b">>) }

\* separator values: not a string, the empty string, a dash
SeparatorValues == { Null, Str(<<>>), Str(<<"-">>) }

\* the options objects whose keys are any subset of Fields and whose values
\* come from L, A and S
ObjectsOver(L, A, S) ==
    UNION { { o \in [ks -> L \cup A \cup S] :
                \A k \in ks : o[k] \in (CASE k = "length" -> L
                                          [] k = "alphabet" -> A
                                          [] k = "separator" -> S) }
            : ks \in SUBSET Fields }

OptionObjects == ObjectsOver(LengthValues, AlphabetValues, SeparatorValues)

\* The inputs of the operation sequences: per field one rejected and one
\* accepted value, a rejected and an accepted model name, with and without
\* prefix.
SeqObjects ==
    ObjectsOver({Num(0), Num(MaxLength)},
                {Str(<<"a">>), Str(<<"a", "b">>)},
                {Null, Str(<<"-">>)})
SeqModelNames == { Undefined, Str(<<" ", "U", "\t">>) }
SeqPrefixes == { Undefined, Str(<<"p">>) }

----------------------------------------------------------------------------
(* State *)
(* globalOptions  the module variable of line 41                            *)
(* call           the operation last invoked, with its arguments           *)
(* opts           the merged options of the last dropid call (line 115)    *)
(* result         what the last dropid call threw or returned              *)
(* returned       what the last getConfig call returned                    *)
(* configured     history: the fields set by configure since the last      *)
(*                reset, with the value last given to each                 *)
(* generator      the closure last returned by createPrefixedId (line 174) *)
(* held           the object a caller kept from a getConfig call            *)
(* heldLive       whether `held` is the very object globalOptions is bound  *)
(*                to (TRUE) or another object (FALSE)                       *)
(* calls          the dropid calls in progress, statement by statement      *)

NoCall == [op |-> "none", modelName |-> Undefined, prefix |-> Undefined,
           options |-> EmptyObject]
NoResult == [kind |-> "none", message |-> "", value |-> <<>>]
NoGenerator == [made |-> FALSE, prefix |-> Undefined, options |-> EmptyObject,
                given |-> EmptyObject, stale |-> FALSE]

\* no generator made, no object kept, no call in progress
CallerIdle ==
    /\ generator = NoGenerator
    /\ held = EmptyObject
    /\ heldLive = FALSE
    /\ calls = <<>>

Init ==
    /\ globalOptions = Spread(EmptyObject, defaultOptions)   \* line 41
    /\ call = NoCall
    /\ opts = EmptyObject
    /\ result = NoResult
    /\ returned = EmptyObject
    /\ configured = EmptyObject
    /\ CallerIdle

\* configure merging over the defaults instead of the current options
configure_overDefaults(options) ==
    /\ globalOptions' = Spread(Spread(EmptyObject, defaultOptions), options)
    /\ call' = [NoCall EXCEPT !.op = "configure", !.options = options]
    /\ opts' = EmptyObject
    /\ result' = NoResult
    /\ returned' = EmptyObject
    /\ configured' = Spread(configured, options)

\* lines 54-56
configure(options) ==
    /\ globalOptions' = Spread(globalOptions, options)
    /\ call' = [NoCall EXCEPT !.op = "configure", !.options = options]
    /\ opts' = EmptyObject
    /\ result' = NoResult
    /\ returned' = EmptyObject
    /\ configured' = Spread(configured, options)

\* a reset that forgets to assign the process-wide options
resetConfig_leavesOptions ==
    /\ call' = [NoCall EXCEPT !.op = "resetConfig"]
    /\ opts' = EmptyObject
    /\ result' = NoResult
    /\ returned' = EmptyObject
    /\ configured' = EmptyObject
    /\ UNCHANGED globalOptions

\* a reset that copies the current options instead of the defaults
resetConfig_copiesCurrent ==
    /\ globalOptions' = Spread(EmptyObject, globalOptions)
    /\ call' = [NoCall EXCEPT !.op = "resetConfig"]
    /\ opts' = EmptyObject
    /\ result' = NoResult
    /\ returned' = EmptyObject
    /\ configured' = EmptyObject

\* lines 70-72
resetConfig ==
    /\ globalOptions' = Spread(EmptyObject, defaultOptions)
    /\ call' = [NoCall EXCEPT !.op = "resetConfig"]
    /\ opts' = EmptyObject
    /\ result' = NoResult
    /\ returned' = EmptyObject
    /\ configured' = EmptyObject

\* lines 85-87
getConfig ==
    /\ returned' = Spread(EmptyObject, globalOptions)
    /\ call' = [NoCall EXCEPT !.op = "getConfig"]
    /\ opts' = EmptyObject
    /\ result' = NoResult
    /\ UNCHANGED <<globalOptions, configured>>

\* dropid storing its merged options back into the process-wide options
dropid_writesGlobal(modelName, prefix, options, seed) ==
    LET out == dropidOutcome(globalOptions, modelName, prefix, options, seed) IN
    /\ call' = [op |-> "dropid", modelName |-> modelName, prefix |-> prefix,
                options |-> options]
    /\ opts' = out.opts
    /\ result' = [kind |-> out.kind, message |-> out.message, value |-> out.value]
    /\ returned' = EmptyObject
    /\ globalOptions' = Spread(globalOptions, options)
    /\ UNCHANGED configured

\* lines 104-144
dropid(modelName, prefix, options, seed) ==
    LET out == dropidOutcome(globalOptions, modelName, prefix, options, seed) IN
    /\ call' = [op |-> "dropid", modelName |-> modelName, prefix |-> prefix,
                options |-> options]
    /\ opts' = out.opts
    /\ result' = [kind |-> out.kind, message |-> out.message, value |-> out.value]
    /\ returned' = EmptyObject
    /\ UNCHANGED <<globalOptions, configured>>

\* Any sequence of the four operations
Next ==
    \/ \E options \in SeqObjects : configure(options) /\ UNCHANGED callerVars
    \/ resetConfig /\ UNCHANGED callerVars
    \/ getConfig /\ UNCHANGED callerVars
    \/ \E modelName \in SeqModelNames, prefix \in SeqPrefixes,
          options \in SeqObjects, seed \in Seeds :
            dropid(modelName, prefix, options, seed) /\ UNCHANGED callerVars

Spec == Init /\ [][Next]_vars

----------------------------------------------------------------------------
(* One dropid call as a function of its arguments and of the process-wide  *)
(* options: the initial states are all pending calls over the full input   *)
(* sets, in every configuration one configure call reaches.                *)

InitCall ==
    /\ \E c \in OptionObjects :
         /\ globalOptions = Spread(Spread(EmptyObject, defaultOptions), c)
         /\ configured = c
    /\ \E modelName \in ModelNames, prefix \in Prefixes, options \in OptionObjects :
         call = [op |-> "pending", modelName |-> modelName, prefix |-> prefix,
                 options |-> options]
    /\ opts = EmptyObject
    /\ result = NoResult
    /\ returned = EmptyObject
    /\ CallerIdle

dropidCall ==
    /\ call.op = "pending"
    /\ \E seed \in Seeds : dropid(call.modelName, call.prefix, call.options, seed)
    /\ UNCHANGED callerVars

NextCall == dropidCall

SpecCall == InitCall /\ [][NextCall]_vars

----------------------------------------------------------------------------
(* createPrefixedId: lines 165-177 *)

PrefixMessage == "prefix must be a non-empty string"

\* the prefix check without its typeof test
prefixRejected_truthyOnly(prefix) == ~Truthy(prefix)

\* lines 169-172
prefixRejected(prefix) == ~Truthy(prefix) \/ TypeOf(prefix) # "string"

\* a closure that merges its options with the process-wide ones when it is
\* made and keeps the merged object
makeGenerator_resolvedAtCreation(prefix, options, global) ==
    [made |-> TRUE, prefix |-> prefix, options |-> Spread(global, options),
     given |-> options, stale |-> FALSE]

\* lines 174-176: the closure captures prefix and options as they were
\* passed.  `given` (the options argument) and `stale` (the process-wide
\* options have changed since the closure was made) are history.
makeGenerator(prefix, options, global) ==
    [made |-> TRUE, prefix |-> prefix, options |-> options,
     given |-> options, stale |-> FALSE]

\* a closure that forgets its options
generatorOutcome_dropsOptions(global, g, modelName, seed) ==
    dropidOutcome(global, modelName, g.prefix, EmptyObject, seed)

\* line 175: the body of the closure
generatorOutcome(global, g, modelName, seed) ==
    dropidOutcome(global, modelName, g.prefix, g.options, seed)

\* a createPrefixedId that also runs the checks of dropid on the options it
\* is given, merged with the process-wide ones
createPrefixedId_validatesOptions(prefix, options) ==
    LET o == mergeOptions(globalOptions, options)
        message == IF prefixRejected(prefix) THEN PrefixMessage
                   ELSE IF lengthRejected(o) THEN LengthMessage
                   ELSE IF alphabetRejected(o) THEN AlphabetMessage
                   ELSE IF separatorRejected(o) THEN SeparatorMessage
                   ELSE ""
    IN
    /\ call' = [op |-> "createPrefixedId", modelName |-> Undefined,
                prefix |-> prefix, options |-> options]
    /\ IF message # ""
       THEN /\ result' = [kind |-> IF message = LengthMessage
                                   THEN "RangeError" ELSE "TypeError",
                          message |-> message, value |-> <<>>]
            /\ UNCHANGED generator
       ELSE /\ result' = [kind |-> "function", message |-> "", value |-> <<>>]
            /\ generator' = makeGenerator(prefix, options, globalOptions)
    /\ opts' = EmptyObject
    /\ returned' = EmptyObject
    /\ UNCHANGED <<globalOptions, configured>>

\* lines 165-177
createPrefixedId(prefix, options) ==
    /\ call' = [op |-> "createPrefixedId", modelName |-> Undefined,
                prefix |-> prefix, options |-> options]
    /\ IF prefixRejected(prefix)
       THEN /\ result' = [kind |-> "TypeError", message |-> PrefixMessage,
                          value |-> <<>>]
            /\ UNCHANGED generator
       ELSE /\ result' = [kind |-> "function", message |-> "", value |-> <<>>]
            /\ generator' = makeGenerator(prefix, options, globalOptions)
    /\ opts' = EmptyObject
    /\ returned' = EmptyObject
    /\ UNCHANGED <<globalOptions, configured>>

\* lines 174-176: a call of the generator
callGenerator(modelName, seed) ==
    LET out == generatorOutcome(globalOptions, generator, modelName, seed) IN
    /\ generator.made
    /\ call' = [op |-> "generator", modelName |-> modelName,
                prefix |-> generator.prefix, options |-> generator.options]
    /\ opts' = out.opts
    /\ result' = [kind |-> out.kind, message |-> out.message, value |-> out.value]
    /\ returned' = EmptyObject
    /\ UNCHANGED <<globalOptions, configured, generator>>

\* The inputs of the sequences with generators: a rejected and an accepted
\* length, a rejected alphabet, a separator; every kind of prefix.
GenObjects ==
    ObjectsOver({Num(0), Num(MaxLength)}, {Str(<<"a">>)}, {Str(<<"-">>)})
GenPrefixes == { Undefined, Null, Num(7), Str(<<>>), Str(<<"p">>) }
GenModelNames == { Undefined, Str(<<" ", "U", "\t">>) }

GenCallObjects == { EmptyObject, [length |-> Num(MaxLength)] }

\* history: a generator made earlier has seen the process-wide options change
NoteChange ==
    /\ generator' = [generator EXCEPT
                        !.stale = @ \/ (generator.made /\ globalOptions' # globalOptions)]
    /\ UNCHANGED <<held, heldLive, calls>>

\* Any sequence of the operations and of calls of the generator
NextGen ==
    \/ \E options \in GenObjects : configure(options) /\ NoteChange
    \/ resetConfig /\ NoteChange
    \/ getConfig /\ UNCHANGED callerVars
    \/ \E modelName \in GenModelNames, options \in GenCallObjects, seed \in Seeds :
          dropid(modelName, Undefined, options, seed) /\ UNCHANGED callerVars
    \/ \E prefix \in GenPrefixes, options \in GenObjects :
          createPrefixedId(prefix, options) /\ UNCHANGED <<held, heldLive, calls>>
    \/ \E modelName \in GenModelNames, seed \in Seeds :
          callGenerator(modelName, seed) /\ UNCHANGED <<held, heldLive, calls>>

SpecGen == Init /\ [][NextGen]_vars

----------------------------------------------------------------------------
(* A caller that keeps the object getConfig returned and writes to it.     *)

\* getConfig handing out the object globalOptions is bound to
getConfigResult_live(global) == [value |-> global, live |-> TRUE]

\* line 86: { ...globalOptions } is a new object with the same fields
getConfigResult(global) == [value |-> Spread(EmptyObject, global), live |-> FALSE]

\* const c = getConfig()
keepConfig ==
    /\ getConfig
    /\ held' = getConfigResult(globalOptions).value
    /\ heldLive' = getConfigResult(globalOptions).live
    /\ UNCHANGED <<generator, calls>>

\* c[k] = v on the kept object: a write to an object reaches every binding
\* of that object, so it reaches globalOptions exactly when `held` is the
\* object globalOptions is bound to.
writeHeld(k, v) ==
    /\ DOMAIN held # {}
    /\ held' = [held EXCEPT ![k] = v]
    /\ globalOptions' = IF heldLive THEN [globalOptions EXCEPT ![k] = v]
                        ELSE globalOptions
    /\ call' = [NoCall EXCEPT !.op = "write", !.options = [f \in {k} |-> v]]
    /\ opts' = EmptyObject
    /\ result' = NoResult
    /\ returned' = EmptyObject
    /\ UNCHANGED <<configured, heldLive, generator, calls>>

\* lines 55 and 71 bind globalOptions to a new object: the kept object is
\* not that object, and keeps its fields
Rebound ==
    /\ heldLive' = FALSE
    /\ UNCHANGED <<held, generator, calls>>

CopyObjects == ObjectsOver({Num(0), Num(MaxLength)}, {}, {Str(<<"-">>)})
CopyCallObjects == { EmptyObject, [separator |-> Str(<<"-">>)] }
\* the values written to the kept object: none of them can be configured
CopyWrites == { <<"length", Num(1)>>, <<"separator", Str(<<>>)>> }

NextCopy ==
    \/ \E options \in CopyObjects : configure(options) /\ Rebound
    \/ resetConfig /\ Rebound
    \/ keepConfig
    \/ \E w \in CopyWrites : writeHeld(w[1], w[2])
    \/ \E modelName \in SeqModelNames, options \in CopyCallObjects, seed \in Seeds :
          dropid(modelName, Undefined, options, seed) /\ UNCHANGED callerVars

SpecCopy == Init /\ [][NextCopy]_vars

----------------------------------------------------------------------------
(* dropid statement by statement, for calls that overlap: each call has    *)
(* its own arguments and locals; globalOptions is the only shared state.   *)
(* A call is a record                                                      *)
(*   pc         the statement it is at                                     *)
(*   modelName, prefix, options   its arguments                            *)
(*   opts       the local of line 115                                      *)
(*   id         the local of line 135                                      *)
(*   result     what it threw or returned                                  *)
(*   seed, drawn, checked, mixed   history: the entropy it drew, whether   *)
(*              generate() ran, the checks it passed in order, whether it  *)
(*              took a step while another call was under way               *)

Callers == {"a", "b"}

NewCall(modelName, prefix, options) ==
    [pc |-> "checkName", modelName |-> modelName, prefix |-> prefix,
     options |-> options, opts |-> EmptyObject, id |-> <<>>, result |-> NoResult,
     seed |-> 0, drawn |-> FALSE, checked |-> <<>>, mixed |-> FALSE]

UnderWay(c) == c.pc \notin {"checkName", "done"}

\* the call p moves to the record c; nothing else changes
Advance(p, c) ==
    /\ calls' = [calls EXCEPT ![p] =
                    [c EXCEPT !.mixed = @ \/ \E q \in Callers \ {p} : UnderWay(calls[q])]]
    /\ UNCHANGED <<globalOptions, call, opts, result, returned, configured,
                   generator, held, heldLive>>

Throw(c, kind, message) ==
    [c EXCEPT !.pc = "done",
              !.result = [kind |-> kind, message |-> message, value |-> <<>>]]

Passed(c, check, next) ==
    [c EXCEPT !.pc = next, !.checked = Append(@, check)]

\* lines 109-112
stCheckName(p) ==
    LET c == calls[p] IN
    /\ c.pc = "checkName"
    /\ Advance(p, IF modelNameRejected(c.modelName)
                  THEN Throw(c, "TypeError", ModelNameMessage)
                  ELSE Passed(c, "modelName", "merge"))

\* a merge that also stores its result in the process-wide options
stMerge_writesGlobal(p) ==
    LET c == calls[p] IN
    /\ c.pc = "merge"
    /\ calls' = [calls EXCEPT ![p] =
                    [c EXCEPT !.pc = "checkLength",
                              !.opts = mergeOptions(globalOptions, c.options),
                              !.mixed = @ \/ \E q \in Callers \ {p} : UnderWay(calls[q])]]
    /\ globalOptions' = mergeOptions(globalOptions, c.options)
    /\ UNCHANGED <<call, opts, result, returned, configured, generator, held, heldLive>>

\* lines 114-118
stMerge(p) ==
    LET c == calls[p] IN
    /\ c.pc = "merge"
    /\ Advance(p, [c EXCEPT !.pc = "checkLength",
                            !.opts = mergeOptions(globalOptions, c.options)])

\* lines 120-123
stCheckLength(p) ==
    LET c == calls[p] IN
    /\ c.pc = "checkLength"
    /\ Advance(p, IF lengthRejected(c.opts)
                  THEN Throw(c, "RangeError", LengthMessage)
                  ELSE Passed(c, "length", "checkAlphabet"))

\* an alphabet check that builds and runs the generator as soon as it passes
stCheckAlphabet_drawsEarly(p) ==
    LET c == calls[p] IN
    /\ c.pc = "checkAlphabet"
    /\ \E seed \in Seeds :
         Advance(p, IF alphabetRejected(c.opts)
                    THEN Throw(c, "TypeError", AlphabetMessage)
                    ELSE [Passed(c, "alphabet", "checkSeparator") EXCEPT
                             !.id = customAlphabet(c.opts.alphabet, c.opts.length, seed),
                             !.seed = seed, !.drawn = TRUE])

\* lines 125-127
stCheckAlphabet(p) ==
    LET c == calls[p] IN
    /\ c.pc = "checkAlphabet"
    /\ Advance(p, IF alphabetRejected(c.opts)
                  THEN Throw(c, "TypeError", AlphabetMessage)
                  ELSE Passed(c, "alphabet", "checkSeparator"))

\* lines 129-131
stCheckSeparator(p) ==
    LET c == calls[p] IN
    /\ c.pc = "checkSeparator"
    /\ Advance(p, IF separatorRejected(c.opts)
                  THEN Throw(c, "TypeError", SeparatorMessage)
                  ELSE Passed(c, "separator", "generate"))

\* lines 133-135
stGenerate(p) ==
    LET c == calls[p] IN
    /\ c.pc = "generate"
    /\ \E seed \in Seeds :
         Advance(p, [c EXCEPT !.pc = "assemble",
                              !.id = customAlphabet(c.opts.alphabet, c.opts.length, seed),
                              !.seed = seed, !.drawn = TRUE])

\* lines 137-143
stReturn(p) ==
    LET c == calls[p]
        normalizedModelName == normalize(c.modelName)
        parts == IF Truthy(c.prefix)
                 THEN <<c.prefix.s, normalizedModelName, c.id>>
                 ELSE <<normalizedModelName, c.id>>
    IN
    /\ c.pc = "assemble"
    /\ Advance(p, [c EXCEPT !.pc = "done",
                            !.result = [kind |-> "id", message |-> "",
                                        value |-> join(parts, c.opts.separator.s)]])

\* The overlapping calls: a rejected name, two names that differ in case
\* and surrounding whitespace only, and another name; with and without
\* prefix; options that pass and options that fail each check.
StepModelNames == { Undefined, Str(<<"u">>), Str(<<" ", "U", "\t">>), Str(<<"v">>) }
StepPrefixes == { Undefined, Str(<<"p">>) }
StepObjects ==
    { EmptyObject, [length |-> Num(0)], [separator |-> Null],
      [length |-> Num(MaxLength), alphabet |-> Str(<<"a", "b">>)] }
\* the process-wide options during the calls: the defaults, a rejected
\* alphabet, another length and separator
StepConfigs ==
    { EmptyObject, [alphabet |-> Str(<<"a">>)],
      [length |-> Num(1), separator |-> Str(<<"-">>)] }

InitSteps ==
    /\ \E c \in StepConfigs :
         /\ globalOptions = Spread(Spread(EmptyObject, defaultOptions), c)
         /\ configured = c
    /\ call = NoCall
    /\ opts = EmptyObject
    /\ result = NoResult
    /\ returned = EmptyObject
    /\ generator = NoGenerator
    /\ held = EmptyObject
    /\ heldLive = FALSE
    /\ calls \in [Callers -> { NewCall(m, x, o) :
                     m \in StepModelNames, x \in StepPrefixes, o \in StepObjects }]

\* No configure or resetConfig runs while the calls do
NextSteps ==
    \E p \in Callers :
       \/ stCheckName(p)
       \/ stMerge(p)
       \/ stCheckLength(p)
       \/ stCheckAlphabet(p)
       \/ stCheckSeparator(p)
       \/ stGenerate(p)
       \/ stReturn(p)

SpecSteps == InitSteps /\ [][NextSteps]_vars

----------------------------------------------------------------------------
(* Vocabulary of the properties *)

IsDropid == call.op = "dropid"
Succeeded == IsDropid /\ result.kind = "id"

\* the effective value of field k for the call recorded in `call`
Effective(k) ==
    IF k \in DOMAIN call.options THEN call.options[k] ELSE globalOptions[k]

\* a model name that is a string and is not empty once trimmed
NameValid == call.modelName.t = "string" /\ trim(call.modelName.s) # <<>>
\* a model name that is absent, not a string, or the empty string
NameAbsentOrEmpty == call.modelName.t # "string" \/ call.modelName.s = <<>>
LengthValid == Effective("length").t = "number" /\ Effective("length").n >= 1
AlphabetValid ==
    Effective("alphabet").t = "string" /\ Len(Effective("alphabet").s) >= 2
SeparatorValid == Effective("separator").t = "string"

PrefixSupplied == call.prefix.t = "string" /\ call.prefix.s # <<>>
NormalizedName == toLowerCase(trim(call.modelName.s))

----------------------------------------------------------------------------
(* C1: every identifier dropid returns is [prefix + separator +]           *)
(* normalizedModelName + separator + suffix: the prefix segment is there   *)
(* exactly when a non-empty prefix was supplied and is that prefix, the    *)
(* name is modelName trimmed and lower-cased, the separator is the         *)
(* effective one, and the suffix has exactly the effective length, every   *)
(* symbol of it taken from the effective alphabet.                         *)
C1_Format ==
    Succeeded =>
        LET sep == Effective("separator").s
            head == (IF PrefixSupplied THEN call.prefix.s \o sep ELSE <<>>)
                        \o NormalizedName \o sep
            id == result.value
        IN /\ Effective("separator").t = "string"
           /\ Len(id) = Len(head) + Effective("length").n
           /\ SubSeq(id, 1, Len(head)) = head
           /\ \A i \in (Len(head) + 1)..Len(id) :
                id[i] \in Chars(Effective("alphabet").s)

C1_Witness ==
    /\ Succeeded
    /\ call.modelName = Str(<<" ", "U", "\t">>)
    /\ call.prefix = Str(<<"p">>)
    /\ DOMAIN call.options = {"length", "alphabet"}
    /\ globalOptions.separator = Str(<<"-">>)
    /\ result.value = <<"p", "-", "u", "-", "b", "b">>

(* C2: field by field, the value a dropid call uses is the call option     *)
(* when the call supplies that field, otherwise the process-wide value,    *)
(* and the process-wide value is the default unless a configure call since *)
(* the last reset set that field; one field's layer never decides          *)
(* another's.                                                              *)
C2_Layering ==
    /\ \A k \in Fields :
         globalOptions[k] =
            IF k \in DOMAIN configured THEN configured[k] ELSE defaultOptions[k]
    /\ (IsDropid /\ DOMAIN opts # {}) =>
         \A k \in Fields :
            opts[k] = IF k \in DOMAIN call.options THEN call.options[k]
                      ELSE IF k \in DOMAIN configured THEN configured[k]
                      ELSE defaultOptions[k]

\* one call that takes its length from the call, its separator from
\* configure and its alphabet from the defaults
C2_Witness ==
    /\ Succeeded
    /\ DOMAIN call.options = {"length"}
    /\ DOMAIN configured = {"length", "separator"}
    /\ configured.length # call.options.length
    /\ opts.length = call.options.length
    /\ opts.separator = Str(<<"-">>)
    /\ opts.alphabet = defaultOptions.alphabet

(* C3: a dropid call whose modelName is a string that is empty once        *)
(* trimmed signals an invalid-argument error and returns no identifier.    *)
C3_WhitespaceNameRejected ==
    (IsDropid /\ call.modelName.t = "string" /\ trim(call.modelName.s) = <<>>)
        => result.kind = "TypeError"

(* C4: a dropid call whose modelName is absent, not a string or the empty  *)
(* string throws a TypeError, whatever the prefix, the options and the     *)
(* process-wide options are.                                               *)
C4_BadNameTypeError ==
    (IsDropid /\ NameAbsentOrEmpty) =>
        /\ result.kind = "TypeError"
        /\ result.message = ModelNameMessage

\* a number as modelName, with a prefix, in a call whose own and whose
\* process-wide options are all acceptable
C4_Witness ==
    /\ IsDropid
    /\ call.modelName = Num(123)
    /\ call.prefix = Str(<<"p">>)
    /\ LengthValid /\ AlphabetValid /\ SeparatorValid
    /\ DOMAIN call.options = {"alphabet"}
    /\ result.kind = "TypeError"

(* C5: with a valid modelName, dropid throws a RangeError whenever the     *)
(* effective length is below 1, whether it comes from the call or from the *)
(* process-wide options; a call-supplied 0 counts as supplied and never    *)
(* falls through to a valid process-wide length.                           *)
C5_LengthRangeError ==
    (IsDropid /\ NameValid /\ Effective("length").n < 1) =>
        /\ result.kind = "RangeError"
        /\ result.message = LengthMessage

C5_Witness ==
    /\ IsDropid
    /\ NameValid
    /\ "length" \in DOMAIN call.options
    /\ call.options.length = Num(0)
    /\ globalOptions.length.n >= 1
    /\ result.kind = "RangeError"

(* C6: with a valid modelName and an effective length of at least 1,       *)
(* dropid throws the alphabet TypeError whenever the effective alphabet is *)
(* missing, not a string, or a string of fewer than 2 characters, and does *)
(* not throw it for a string of 2 or more characters.                      *)
C6_AlphabetTypeError ==
    (IsDropid /\ NameValid /\ LengthValid) =>
        IF AlphabetValid
        THEN result.message # AlphabetMessage
        ELSE result.kind = "TypeError" /\ result.message = AlphabetMessage

(* C7: with a valid modelName, length and alphabet, dropid throws a        *)
(* TypeError exactly when the effective separator is not a string; the     *)
(* empty string is accepted, and the segments then follow each other with  *)
(* nothing between them.                                                   *)
C7_SeparatorTypeError ==
    (IsDropid /\ NameValid /\ LengthValid /\ AlphabetValid) =>
        /\ (result.kind = "TypeError") <=> ~SeparatorValid
        /\ ~SeparatorValid => result.message = SeparatorMessage
        /\ SeparatorValid => result.kind = "id"
        /\ Effective("separator") = Str(<<>>) =>
             LET head == (IF PrefixSupplied THEN call.prefix.s ELSE <<>>)
                            \o NormalizedName
             IN /\ Len(result.value) = Len(head) + Effective("length").n
                /\ SubSeq(result.value, 1, Len(head)) = head

C7_Witness ==
    /\ Succeeded
    /\ NameValid /\ LengthValid /\ AlphabetValid
    /\ Effective("separator") = Str(<<>>)
    /\ call.prefix = Str(<<"p">>)
    /\ result.value = <<"p", "u", "a", "b">>

(* C8: when a call breaks more than one validation rule, the error is that *)
(* of the first failing check in the order model name, length, alphabet,   *)
(* separator: an invalid model name gives the invalid-argument error even  *)
(* if the length is below 1, and a length below 1 gives the out-of-range   *)
(* error even if the alphabet or the separator is invalid too.             *)
C8_FirstFailingCheckWins ==
    IsDropid =>
        /\ (~NameValid /\ ~LengthValid) => result.kind = "TypeError"
        /\ (NameValid /\ ~LengthValid /\ (~AlphabetValid \/ ~SeparatorValid))
              => result.kind = "RangeError"

(* C9: a dropid call, whether it returns or throws, leaves the             *)
(* process-wide options as they were, for any arguments.                   *)
C9_DropidKeepsGlobal ==
    [][call'.op = "dropid" =>
          /\ globalOptions' = globalOptions
          /\ Spread(EmptyObject, globalOptions') = Spread(EmptyObject, globalOptions)]_vars

\* a call with all three options of its own, each different from the
\* configured process-wide value, has thrown
C9_Witness ==
    /\ IsDropid
    /\ result.kind = "RangeError"
    /\ DOMAIN call.options = Fields
    /\ DOMAIN configured = Fields
    /\ \A k \in Fields : call.options[k] # globalOptions[k]

C11_ResetRestoresDefaults ==
    call.op = "resetConfig" =>
        /\ DOMAIN globalOptions = Fields
        /\ globalOptions.length = Num(12)
        /\ globalOptions.alphabet =
              Str(<<"0", "1", "2", "3", "4", "5", "6", "7", "8", "9",
                    "a", "b", "c", "d", "e", "f", "g", "h", "i", "j", "k", "l",
                    "m", "n", "o", "p", "q", "r", "s", "t", "u", "v", "w", "x",
                    "y", "z">>)
        /\ Len(globalOptions.alphabet.s) = 36
        /\ globalOptions.separator = Str(<<"_">>)
        /\ globalOptions = defaultOptions

\* a reset after a generator was made and the options were then changed
C11_Witness ==
    /\ call.op = "resetConfig"
    /\ generator.made
    /\ generator.stale
    /\ globalOptions.length = Num(12)

C12_GetConfigCopies ==
    [][LET current(k) == IF k \in DOMAIN configured' THEN configured'[k]
                         ELSE defaultOptions[k]
       IN /\ call'.op = "write" => globalOptions' = globalOptions
          /\ call'.op \in {"configure", "resetConfig"} => held' = held
          /\ call'.op = "getConfig" =>
                /\ DOMAIN returned' = Fields
                /\ \A k \in Fields : returned'[k] = current(k)
                /\ held' = returned'
          /\ (call'.op = "dropid" /\ DOMAIN opts' # {}) =>
                \A k \in Fields :
                   opts'[k] = IF k \in DOMAIN call'.options
                              THEN call'.options[k] ELSE current(k)]_vars

\* the kept object was written to (a length of 1 cannot be configured), and
\* a later dropid call used the default length
C12_Witness ==
    /\ call.op = "dropid"
    /\ result.kind = "id"
    /\ DOMAIN held = Fields
    /\ held.length = Num(1)
    /\ held.separator = Str(<<>>)
    /\ opts.length = Num(12)
    /\ opts.separator = Str(<<"_">>)

C14_PrefixValidated ==
    call.op = "createPrefixedId" =>
        IF call.prefix.t = "string" /\ call.prefix.s # <<>>
        THEN /\ result.kind = "function"
             /\ generator.made
             /\ generator.prefix = call.prefix
        ELSE /\ result.kind = "TypeError"
             /\ result.message = PrefixMessage

\* a number as prefix, rejected although an earlier generator exists
C14_Witness ==
    /\ call.op = "createPrefixedId"
    /\ call.prefix = Num(7)
    /\ result.kind = "TypeError"
    /\ generator.made

(* C15: a call g(modelName) of a generator made by                         *)
(* createPrefixedId(prefix, options) has the outcome of                    *)
(* dropid(modelName, prefix, options) in the same state: the same error,   *)
(* or an identifier dropid can return there; and the call leaves the       *)
(* captured prefix and options as they were.                               *)
C15_GeneratorIsDropid ==
    [][call'.op = "generator" =>
          /\ generator' = generator
          /\ \E seed \in Seeds :
                LET ref == dropidOutcome(globalOptions, call'.modelName,
                                         generator.prefix, generator.given, seed)
                IN /\ result'.kind = ref.kind
                   /\ result'.message = ref.message
                   /\ result'.value = ref.value
                   /\ opts' = ref.opts]_vars

C15_Witness ==
    /\ call.op = "generator"
    /\ result.kind = "id"
    /\ DOMAIN generator.given = {"length", "separator"}
    /\ result.value = <<"p", "-", "u", "-", "0", "1">>

(* C20: a generator resolves its options at each call: a field absent from *)
(* the options it was made with takes the process-wide value current at    *)
(* the call, so a configure or resetConfig after creation changes its      *)
(* later results, and a field present in them keeps overriding.            *)
C20_ResolvedAtCall ==
    (call.op = "generator" /\ DOMAIN opts # {}) =>
        \A k \in Fields :
            opts[k] = IF k \in DOMAIN generator.given
                      THEN generator.given[k]
                      ELSE globalOptions[k]

\* a generator made with a separator only, called after the process-wide
\* options changed: its length is the configured one
C20_Witness ==
    /\ call.op = "generator"
    /\ result.kind = "id"
    /\ generator.stale
    /\ DOMAIN generator.given = {"separator"}
    /\ DOMAIN configured = {"length"}
    /\ opts.length = configured.length
    /\ opts.separator = generator.given.separator

----------------------------------------------------------------------------
(* Vocabulary of the properties of overlapping calls *)

Done(c) == c.pc = "done"
ReturnedId(c) == Done(c) /\ c.result.kind = "id"

\* the process-wide options the calls started with
StartOptions ==
    [k \in Fields |-> IF k \in DOMAIN configured THEN configured[k]
                      ELSE defaultOptions[k]]

\* the model-name segment of the identifier a call returned: what lies
\* between the prefix part and the last separator
Segment(c) ==
    LET sep == c.opts.separator.s
        before == IF c.prefix.t = "string" /\ c.prefix.s # <<>>
                  THEN Len(c.prefix.s) + Len(sep) ELSE 0
    IN SubSeq(c.result.value, before + 1,
              Len(c.result.value) - c.opts.length.n - Len(sep))

toUpperCaseChar(ch) ==
    IF \E i \in 1..Len(Lower) : Lower[i] = ch
    THEN Upper[CHOOSE i \in 1..Len(Lower) : Lower[i] = ch]
    ELSE ch

\* two names that differ in letter case and surrounding whitespace only
SameNameUpToCaseAndSpace(m1, m2) ==
    LET fold(m) == [i \in 1..Len(trim(m.s)) |-> toUpperCaseChar(trim(m.s)[i])]
    IN m1.t = "string" /\ m2.t = "string" /\ fold(m1) = fold(m2)

(* C16: the model-name segment of an identifier depends only on the model  *)
(* name trimmed and lower-cased: two valid names that differ in letter     *)
(* case or surrounding whitespace only give the same segment, and          *)
(* normalizing a segment again changes nothing.                            *)
C16_NormalizedSegment ==
    \A p \in DOMAIN calls :
       ReturnedId(calls[p]) =>
          /\ Segment(calls[p]) = toLowerCase(trim(calls[p].modelName.s))
          /\ toLowerCase(trim(Segment(calls[p]))) = Segment(calls[p])
          /\ \A q \in DOMAIN calls :
                (ReturnedId(calls[q])
                   /\ SameNameUpToCaseAndSpace(calls[p].modelName, calls[q].modelName))
                => Segment(calls[q]) = Segment(calls[p])

\* "u" and " U<tab>", with different prefixes, both give the segment "u"
C16_Witness ==
    /\ DOMAIN calls = Callers
    /\ ReturnedId(calls["a"]) /\ ReturnedId(calls["b"])
    /\ calls["a"].modelName = Str(<<"u">>)
    /\ calls["b"].modelName = Str(<<" ", "U", "\t">>)
    /\ calls["a"].prefix # calls["b"].prefix
    /\ Segment(calls["a"]) = <<"u">>
    /\ Segment(calls["b"]) = <<"u">>

(* C17: when several dropid calls overlap and no configure or resetConfig  *)
(* runs during them, whatever the order of their statements each call ends *)
(* as it would alone with the same process-wide options (the same error,   *)
(* or the identifier its draw gives), and the process-wide options are     *)
(* unchanged.                                                              *)
C17_OverlapIsHarmless ==
    /\ DOMAIN calls # {} => globalOptions = StartOptions
    /\ \A p \in DOMAIN calls :
          Done(calls[p]) =>
             LET c == calls[p]
                 alone == dropidOutcome(StartOptions, c.modelName, c.prefix,
                                        c.options, c.seed)
             IN /\ c.result.kind = alone.kind
                /\ c.result.message = alone.message
                /\ c.result.value = alone.value

\* both calls took steps while the other was under way; one threw, the
\* other returned an identifier
C17_Witness ==
    /\ DOMAIN calls = Callers
    /\ calls["a"].mixed /\ calls["b"].mixed
    /\ Done(calls["a"]) /\ Done(calls["b"])
    /\ calls["a"].result.kind = "RangeError"
    /\ calls["b"].result.kind = "id"
    /\ DOMAIN calls["b"].options = {"length", "alphabet"}

(* C19: in every dropid call the checks of the model name, the length, the *)
(* alphabet and the separator, in this order, are all passed before the    *)
(* suffix is drawn: a call that throws has drawn nothing and returns no    *)
(* string, whole or partial, and a call that has drawn returns a whole     *)
(* identifier.                                                             *)
C19_ValidateBeforeDraw ==
    \A p \in DOMAIN calls :
       LET c == calls[p] IN
       /\ c.drawn =>
             /\ c.checked = <<"modelName", "length", "alphabet", "separator">>
             /\ c.pc \in {"assemble", "done"}
             /\ c.result.kind \in {"none", "id"}
       /\ c.result.kind \in {"TypeError", "RangeError"} =>
             /\ ~c.drawn
             /\ c.id = <<>>
             /\ c.result.value = <<>>
       /\ ~Done(c) => c.result = NoResult
       /\ (Done(c) /\ c.drawn) =>
             /\ c.result.kind = "id"
             /\ Len(c.id) = c.opts.length.n
             /\ Len(c.result.value) >= Len(toLowerCase(trim(c.modelName.s))) + Len(c.id)
             /\ SubSeq(c.result.value, Len(c.result.value) - Len(c.id) + 1,
                       Len(c.result.value)) = c.id

\* one call has thrown at the separator check, the last one, without a
\* draw; the other has drawn and not yet returned
C19_Witness ==
    /\ DOMAIN calls = Callers
    /\ calls["a"].result.message = SeparatorMessage
    /\ ~calls["a"].drawn
    /\ calls["b"].drawn
    /\ calls["b"].pc = "assemble"

====
